---------------------------- MODULE Spec2Model ----------------------------
(***************************************************************************)
(* Model of SmartCleanerAgent (src/src/smartCleaner.py): the field         *)
(* normalizers, clean_lead, clean_dataset, deduplicate and the batch       *)
(* driver process_all_json.                                                *)
(*                                                                         *)
(* Python values are represented as follows.  A str is a sequence of       *)
(* one-character strings; None is the one-element sequence <<"None">>      *)
(* (no character is the four-letter string "None", so it differs from      *)
(* every str, the empty str included).  A dict is a function whose domain  *)
(* is its set of keys.  The value under "address" is wrapped in a record   *)
(* [isNone, items] so that a null address and a nested dict can be told    *)
(* apart.                                                                  *)
(***************************************************************************)
EXTENDS Integers, Sequences, FiniteSets, TLC

VARIABLES
    nlp,          \* self.nlp is set (the spaCy model loaded in __init__)
    nextId,       \* stands for uuid.uuid4(): the next fresh identifier
    clock,        \* stands for datetime.now()
    pc,           \* position of the running operation
    text,         \* argument of _clean_str
    str_out,      \* value returned by _clean_str
    raw_lead,     \* argument of clean_lead
    lead,         \* dict returned by clean_lead
    relead,       \* dict returned by clean_lead applied to lead
    exc,          \* exception propagating out of the running operation
    leads,        \* argument of clean_dataset / deduplicate
    key_fields,   \* argument of deduplicate
    seen,         \* deduplicate's local set of keys
    deduped,      \* deduplicate's result list
    dataset,      \* list returned by clean_dataset
    raw_dir,      \* ./data/raw: filename -> document
    todo,         \* filenames os.listdir has still to yield
    clean_dir,    \* ./data/clean: filename -> list written
    skipped,      \* filenames reported "Failed to load"
    cleaned       \* filename -> list clean_dataset returned for it

envVars   == <<nlp, nextId, clock>>
strVars   == <<text, str_out>>
leadVars  == <<raw_lead, lead, relead>>
listVars  == <<leads, key_fields, seen, deduped, dataset>>
batchVars == <<raw_dir, todo, clean_dir, skipped, cleaned>>

vars == <<envVars, pc, exc, strVars, leadVars, listVars, batchVars>>

-----------------------------------------------------------------------------
(* Python values *)

None == <<"None">>

\* bool(v) for a str or None: `if text`, `if not email`, `if name`
Truthy(v) == v # None /\ v # <<>>

UpperSeq == <<"A","B","C","D","E","F","G","H","I","J","K","L","M",
              "N","O","P","Q","R","S","T","U","V","W","X","Y","Z">>
LowerSeq == <<"a","b","c","d","e","f","g","h","i","j","k","l","m",
              "n","o","p","q","r","s","t","u","v","w","x","y","z">>
Upper == {UpperSeq[i] : i \in DOMAIN UpperSeq}
Lower == {LowerSeq[i] : i \in DOMAIN LowerSeq}
Letter == Upper \cup Lower
Digit == {"0","1","2","3","4","5","6","7","8","9"}
HexDigit == Digit \cup {"a","b","c","d","e","f","A","B","C","D","E","F"}

\* regex \s and str.strip()'s whitespace, restricted to ASCII
Whitespace == {" ", "\t", "\n", "\r"}
\* regex \w, restricted to ASCII
WordChar == Letter \cup Digit \cup {"_"}

ToLower(c) ==
    IF c \in Upper THEN LowerSeq[CHOOSE i \in DOMAIN UpperSeq : UpperSeq[i] = c]
    ELSE c
ToUpper(c) ==
    IF c \in Lower THEN UpperSeq[CHOOSE i \in DOMAIN LowerSeq : LowerSeq[i] = c]
    ELSE c

\* str.lower()
lower(s) == [i \in DOMAIN s |-> ToLower(s[i])]

\* str.title(): a letter that follows a cased letter is lower-cased, any
\* other letter is upper-cased
title(s) ==
    [i \in DOMAIN s |->
        IF i > 1 /\ s[i-1] \in Letter THEN ToLower(s[i]) ELSE ToUpper(s[i])]

RECURSIVE lstrip(_)
lstrip(s) ==
    IF s # <<>> /\ Head(s) \in Whitespace THEN lstrip(Tail(s)) ELSE s

RECURSIVE rstrip(_)
rstrip(s) ==
    IF s # <<>> /\ s[Len(s)] \in Whitespace
    THEN rstrip(SubSeq(s, 1, Len(s) - 1)) ELSE s

\* str.strip()
strip(s) == rstrip(lstrip(s))

\* re.sub(r'\s+', ' ', text): every maximal whitespace run becomes one space
RECURSIVE sub_ws(_)
sub_ws(s) ==
    IF s = <<>> THEN <<>>
    ELSE IF Head(s) \in Whitespace THEN <<" ">> \o sub_ws(lstrip(s))
    ELSE <<Head(s)>> \o sub_ws(Tail(s))

\* the characters the class [^\w\s.,\-@:/] does not match
KeptChar == WordChar \cup Whitespace \cup {".", ",", "-", "@", ":", "/"}
IsKept(c) == c \in KeptChar

\* re.sub(r'[^\w\s.,\-@:/]', '', text)
sub_disallowed(s) == SelectSeq(s, IsKept)

_clean_str(t) ==
    IF t = None THEN None
    ELSE LET t1 == strip(sub_ws(t))
             t2 == sub_disallowed(t1)
         IN  IF t2 # <<>> THEN t2 ELSE None


\* str.split(maxsplit=1) without a separator: splits at the first whitespace
\* run; leading whitespace is skipped, the remainder keeps its tail
RECURSIVE FirstWord(_)
FirstWord(s) ==
    IF s = <<>> \/ Head(s) \in Whitespace THEN <<>>
    ELSE <<Head(s)>> \o FirstWord(Tail(s))

split1(s) ==
    LET body  == lstrip(s)
        first == FirstWord(body)
        rest  == lstrip(SubSeq(body, Len(first) + 1, Len(body)))
    IN  IF body = <<>> THEN <<>>
        ELSE IF rest = <<>> THEN <<first>>
        ELSE <<first, rest>>

\* `sub in s`
Contains(s, sub) ==
    \E i \in 0..(Len(s) - Len(sub)) : SubSeq(s, i + 1, i + Len(sub)) = sub

StartsWith(s, pre) == Len(s) >= Len(pre) /\ SubSeq(s, 1, Len(pre)) = pre

AllIn(s, cls) == \A i \in DOMAIN s : s[i] \in cls

\* dict.get(k) and dict.get(k, default)
get_or(d, k, default) == IF k \in DOMAIN d THEN d[k] ELSE default
get(d, k) == get_or(d, k, None)

-----------------------------------------------------------------------------
(* Field normalizers *)

EmailLocalChar == Letter \cup Digit \cup {".", "_", "%", "+", "-"}
EmailDomainChar == Letter \cup Digit \cup {".", "-"}

\* re.match(r'^[a-zA-Z0-9._%+-]+@[a-zA-Z0-9.-]+\.[a-zA-Z]{2,}$', email), on a
\* string that ends in no newline
MatchesEmail(s) ==
    \E at \in DOMAIN s : \E dot \in DOMAIN s :
        /\ s[at] = "@"
        /\ s[dot] = "."
        /\ at > 1
        /\ dot > at + 1
        /\ Len(s) >= dot + 2
        /\ AllIn(SubSeq(s, 1, at - 1), EmailLocalChar)
        /\ AllIn(SubSeq(s, at + 1, dot - 1), EmailDomainChar)
        /\ AllIn(SubSeq(s, dot + 1, Len(s)), Letter)

_normalize_email(email) ==
    IF ~Truthy(email) THEN None
    ELSE LET e == strip(lower(email))
         IN  IF MatchesEmail(e) THEN e ELSE None

\* re.match(r'^[a-zA-Z]+://', url)
HasScheme(s) ==
    \E n \in 1..Len(s) :
        /\ AllIn(SubSeq(s, 1, n), Letter)
        /\ Len(s) >= n + 3
        /\ SubSeq(s, n + 1, n + 3) = <<":", "/", "/">>

UrlHostChar == WordChar \cup {"-", "."}

\* one repetition of (?:[-\w.]|(?:%[0-9a-fA-F]{2})) at the head of s
HostUnitAtHead(s) ==
    \/ s # <<>> /\ Head(s) \in UrlHostChar
    \/ Len(s) >= 3 /\ s[1] = "%" /\ s[2] \in HexDigit /\ s[3] \in HexDigit

\* re.match(r'https?://(?:[-\w.]|(?:%[0-9a-fA-F]{2}))+\S*', url): a prefix
\* match, and \S* also matches the empty string
MatchesUrl(s) ==
    LET http  == <<"h","t","t","p",":","/","/">>
        https == <<"h","t","t","p","s",":","/","/">>
    IN  \/ StartsWith(s, http)  /\ HostUnitAtHead(SubSeq(s, 8, Len(s)))
        \/ StartsWith(s, https) /\ HostUnitAtHead(SubSeq(s, 9, Len(s)))

_normalize_url(url) ==
    IF ~Truthy(url) THEN None
    ELSE LET u0 == strip(url)
             u1 == IF ~HasScheme(u0)
                   THEN <<"h","t","t","p",":","/","/">> \o u0 ELSE u0
         IN  IF MatchesUrl(u1) THEN u1 ELSE None

IsDigit(c) == c \in Digit

\* Stand-in for the phonenumbers library with default region "US": parse
\* fails on a string without digits; a number is valid when it is a NANP
\* number (country code 1, ten national digits, area code not starting in
\* 0 or 1); E.164 is "+", the country code and the national digits.
PhoneParse(phone) ==
    LET ds == SelectSeq(phone, IsDigit)
        intl == lstrip(phone) # <<>> /\ Head(lstrip(phone)) = "+"
    IN  IF ds = <<>> THEN [error |-> TRUE, cc |-> <<>>, national |-> <<>>]
        ELSE IF intl
        THEN [error |-> FALSE, cc |-> <<Head(ds)>>, national |-> Tail(ds)]
        ELSE [error |-> FALSE, cc |-> <<"1">>, national |-> ds]

PhoneIsValid(parsed) ==
    /\ parsed.cc = <<"1">>
    /\ Len(parsed.national) = 10
    /\ parsed.national[1] \notin {"0", "1"}

PhoneE164(parsed) == <<"+">> \o parsed.cc \o parsed.national

_normalize_phone(phone) ==
    IF ~Truthy(phone) THEN None
    ELSE LET parsed == PhoneParse(phone)
         IN  IF parsed.error THEN None
             ELSE IF PhoneIsValid(parsed) THEN PhoneE164(parsed)
             ELSE None

-----------------------------------------------------------------------------
(* Company enricher and entity extractor *)

\* dict with key k set to v (lead[k] = v)
set_item(d, k, v) == [x \in DOMAIN d \cup {k} |-> IF x = k THEN v ELSE d[x]]

\* the rules in the other order: the startup marker tested first
_enrich_company_startup_first(ld) ==
    LET name == get(ld, "company")
    IN  IF Truthy(name)
        THEN IF Contains(name, <<"S","t","a","r","t","u","p">>)
             THEN set_item(set_item(ld, "industry",
                      <<"I","n","n","o","v","a","t","i","o","n"," ","&"," ",
                        "T","e","c","h","n","o","l","o","g","y">>),
                      "company_size",
                      <<"1","1","-","5","0"," ","e","m","p","l","o","y","e","e","s">>)
             ELSE IF \/ Contains(name, <<"T","e","c","h">>)
                     \/ Contains(name, <<"S","o","f","t","w","a","r","e">>)
             THEN set_item(set_item(ld, "industry",
                      <<"I","T"," ","&"," ","S","o","f","t","w","a","r","e">>),
                      "company_size",
                      <<"5","1","-","2","0","0"," ","e","m","p","l","o","y","e","e","s">>)
             ELSE ld
        ELSE ld

_enrich_company(ld) ==
    LET name == get(ld, "company")
    IN  IF Truthy(name)
        THEN IF \/ Contains(name, <<"T","e","c","h">>)
                \/ Contains(name, <<"S","o","f","t","w","a","r","e">>)
             THEN set_item(set_item(ld, "industry",
                      <<"I","T"," ","&"," ","S","o","f","t","w","a","r","e">>),
                      "company_size",
                      <<"5","1","-","2","0","0"," ","e","m","p","l","o","y","e","e","s">>)
             ELSE IF Contains(name, <<"S","t","a","r","t","u","p">>)
             THEN set_item(set_item(ld, "industry",
                      <<"I","n","n","o","v","a","t","i","o","n"," ","&"," ",
                        "T","e","c","h","n","o","l","o","g","y">>),
                      "company_size",
                      <<"1","1","-","5","0"," ","e","m","p","l","o","y","e","e","s">>)
             ELSE ld
        ELSE ld

\* the whitespace-separated words of s
RECURSIVE Words(_)
Words(s) ==
    LET body == lstrip(s)
        w    == FirstWord(body)
    IN  IF body = <<>> THEN <<>>
        ELSE <<w>> \o Words(SubSeq(body, Len(w) + 1, Len(body)))

\* Stand-in for the spaCy pipeline (self.nlp(text).ents): every capitalised
\* word is one entity, labelled by its initial.
NlpLabel(w) ==
    CASE Head(w) = "P" -> "PERSON"
      [] Head(w) = "O" -> "ORG"
      [] Head(w) = "G" -> "GPE"
      [] OTHER -> "NORP"

IsCapitalised(w) == w # <<>> /\ Head(w) \in Upper

NlpEnts(t) ==
    LET caps == SelectSeq(Words(t), IsCapitalised)
    IN  [i \in DOMAIN caps |-> [text |-> caps[i], label |-> NlpLabel(caps[i])]]

IsPerson(e) == e.label = "PERSON"
IsOrg(e) == e.label = "ORG"
IsGpe(e) == e.label = "GPE"
IsMisc(e) == e.label \notin {"PERSON", "ORG", "GPE"}
TextsOf(es) == [i \in DOMAIN es |-> es[i].text]

_extract_entities(t, nlpOn) ==
    LET ents == IF nlpOn THEN NlpEnts(t) ELSE <<>>
    IN  [persons       |-> TextsOf(SelectSeq(ents, IsPerson)),
         organizations |-> TextsOf(SelectSeq(ents, IsOrg)),
         locations     |-> TextsOf(SelectSeq(ents, IsGpe)),
         misc          |-> SelectSeq(ents, IsMisc)]

-----------------------------------------------------------------------------
(* Record cleaner *)

PyDict(d) == [isNone |-> FALSE, items |-> d]
NoneDict == [isNone |-> TRUE, items |-> <<>>]

\* raw_lead.get("address", {})
address_of(raw) == get_or(raw, "address", PyDict(<<>>))

\* raw_lead.get("address", {}).get("street") raises AttributeError when the
\* value under "address" is None
clean_lead_raises(raw) == address_of(raw).isNone

\* what raw_lead.get("source", "Unknown") returns
source_of(raw) == get_or(raw, "source", <<"U","n","k","n","o","w","n">>)

\* lines 52-57: first_name / last_name from full_name
with_names(ld) ==
    IF Truthy(ld["full_name"])
    THEN LET parts == split1(ld["full_name"])
             l1 == IF Len(parts) > 0
                   THEN set_item(ld, "first_name", title(parts[1])) ELSE ld
         IN  IF Len(parts) > 1
             THEN set_item(l1, "last_name", title(parts[2])) ELSE l1
    ELSE ld

\* lines 59-60: entities from job_title
with_entities(ld, nlpOn) ==
    IF Truthy(ld["job_title"]) /\ nlpOn
    THEN set_item(ld, "entities", _extract_entities(ld["job_title"], nlpOn))
    ELSE ld

\* lines 30-51: the record the normalizers build; env.id is the value uuid4
\* gives and env.now the value datetime.now() gives
skeleton(raw, env) ==
    LET addr == address_of(raw).items
    IN  [id           |-> env.id,
         full_name    |-> _clean_str(get(raw, "full_name")),
         first_name   |-> None,
         last_name    |-> None,
         email        |-> _normalize_email(get(raw, "email")),
         phone        |-> _normalize_phone(get(raw, "phone")),
         company      |-> _clean_str(get(raw, "company")),
         job_title    |-> _clean_str(get(raw, "job_title")),
         address      |-> PyDict(
             [street      |-> _clean_str(get(addr, "street")),
              city        |-> _clean_str(get(addr, "city")),
              postal_code |-> _clean_str(get(addr, "postal_code")),
              country     |-> _clean_str(get(addr, "country"))]),
         linkedin_url |-> _normalize_url(get(raw, "linkedin_url")),
         website_url  |-> _normalize_url(get(raw, "website_url")),
         industry     |-> _clean_str(get(raw, "industry")),
         company_size |-> _clean_str(get(raw, "company_size")),
         last_updated |-> env.now,
         source       |-> source_of(raw)]

\* clean_lead for a raw_lead on which it does not raise
clean_lead(raw, env, nlpOn) ==
    with_entities(_enrich_company(with_names(skeleton(raw, env))), nlpOn)

\* the environment after one clean_lead call: uuid4 never repeats a value,
\* and the clock has moved on
Tick(env) == [id |-> env.id + 1, now |-> env.now + 1]

\* clean_dataset: [self.clean_lead(lead) for lead in leads if
\* self.clean_lead(lead)].  Per element the condition is evaluated first and
\* the element expression second, so each kept record is the result of the
\* second of two calls; a dict is truthy when it has a key.  The result is
\* [raised, value, env]: env is the environment the call leaves behind.
RECURSIVE clean_dataset_from(_, _, _, _, _)
clean_dataset_from(ls, i, env, nlpOn, acc) ==
    IF i > Len(ls) THEN [raised |-> FALSE, value |-> acc, env |-> env]
    ELSE IF clean_lead_raises(ls[i])
    THEN [raised |-> TRUE, value |-> <<>>, env |-> Tick(env)]
    ELSE IF DOMAIN clean_lead(ls[i], env, nlpOn) # {}
    THEN clean_dataset_from(ls, i + 1, Tick(Tick(env)), nlpOn,
             Append(acc, clean_lead(ls[i], Tick(env), nlpOn)))
    ELSE clean_dataset_from(ls, i + 1, Tick(env), nlpOn, acc)

clean_dataset(ls, env, nlpOn) == clean_dataset_from(ls, 1, env, nlpOn, <<>>)

-----------------------------------------------------------------------------
(* Deduplicator *)

\* str(v) for a str or None
str(v) == IF v = None THEN <<"N","o","n","e">> ELSE v

\* "_".join(parts)
RECURSIVE join_underscore(_)
join_underscore(parts) ==
    IF parts = <<>> THEN <<>>
    ELSE IF Len(parts) = 1 THEN parts[1]
    ELSE parts[1] \o <<"_">> \o join_underscore(Tail(parts))

\* the key without .lower()
dedup_key_cased(ld, kf) ==
    join_underscore([i \in DOMAIN kf |-> str(get_or(ld, kf[i], <<>>))])

\* "_".join(str(lead.get(f, '')).lower() for f in key_fields)
dedup_key(ld, kf) ==
    join_underscore([i \in DOMAIN kf |-> lower(str(get_or(ld, kf[i], <<>>)))])

\* the set of an earlier call is kept (as a mutable default argument or an
\* attribute of the agent would be)
new_seen_kept(old) == old

\* seen = set() at the head of deduplicate; old is what an earlier call left
new_seen(old) == {}

\* the loop of deduplicate from index i on: [deduped, seen]
RECURSIVE dedup_loop(_, _, _, _, _)
dedup_loop(ls, kf, i, sn, acc) ==
    IF i > Len(ls) THEN [deduped |-> acc, seen |-> sn]
    ELSE LET key == dedup_key(ls[i], kf)
         IN  IF key # <<>> /\ key \notin sn
             THEN dedup_loop(ls, kf, i + 1, sn \cup {key}, Append(acc, ls[i]))
             ELSE dedup_loop(ls, kf, i + 1, sn, acc)

\* key_fields defaults to ["email"]
default_key_fields == <<"email">>

deduplicate(ls, kf, old) == dedup_loop(ls, kf, 1, new_seen(old), <<>>)

-----------------------------------------------------------------------------
(* Values the variables of an operation hold while another one is modelled *)

NoExc == "none"

EnvStart  == nextId = 1 /\ clock = 1
StrIdle   == text = None /\ str_out = None
LeadIdle  == raw_lead = <<>> /\ lead = <<>> /\ relead = <<>>
ListIdle  == /\ leads = <<>> /\ key_fields = <<>> /\ seen = {}
             /\ deduped = <<>> /\ dataset = <<>>
BatchIdle == /\ raw_dir = <<>> /\ todo = {} /\ clean_dir = <<>>
             /\ skipped = {} /\ cleaned = <<>>

\* all sequences over S of length at most n
SeqsUpTo(S, n) == UNION {[1..k -> S] : k \in 0..n}

-----------------------------------------------------------------------------
(* _clean_str applied to one text *)

MaxTextLen == 4

TextAlphabet == {"a", " ", "\t", "!", "."}

Texts == SeqsUpTo(TextAlphabet, MaxTextLen) \cup {None}

InitStr ==
    /\ nlp = FALSE /\ EnvStart
    /\ pc = "call" /\ exc = NoExc
    /\ text \in Texts /\ str_out = None
    /\ LeadIdle /\ ListIdle /\ BatchIdle

CleanStr ==
    /\ pc = "call"
    /\ str_out' = _clean_str(text)
    /\ pc' = "returned"
    /\ UNCHANGED <<envVars, exc, text, leadVars, listVars, batchVars>>

NextStr == CleanStr

SpecStr == InitStr /\ [][NextStr]_vars

\* a cleaned string as the specification describes it: only kept characters,
\* no whitespace at either end, no two whitespace characters in a row
WellFormedText(s) ==
    /\ s # <<>>
    /\ AllIn(s, KeptChar)
    /\ s[1] \notin Whitespace
    /\ s[Len(s)] \notin Whitespace
    /\ \A i \in 1..(Len(s) - 1) :
          ~(s[i] \in Whitespace /\ s[i + 1] \in Whitespace)

\* C6: for a non-null text _clean_str returns None or a string made of
\* allowed characters only, without leading or trailing whitespace and
\* without a run of two or more whitespace characters; for None it returns
\* None.
C6_CleanStrWellFormed ==
    pc = "returned" =>
        IF text = None THEN str_out = None
        ELSE str_out = None \/ WellFormedText(str_out)

-----------------------------------------------------------------------------
(* clean_lead applied to one raw lead, and again to its own result *)

\* a raw lead has at most this many of the optional fields
MaxFields == 2

RawFields == {"full_name", "email", "phone", "company", "job_title",
              "address", "linkedin_url", "website_url", "industry",
              "company_size", "source"}

\* the values tried for each field: None and a few strings (for "address":
\* None, the empty object and an object with one entry)
FieldValues(f) ==
    CASE f = "full_name" ->
            {None, <<"j","o"," ","d","e"," ","l">>, <<"a"," ","!"," ","b">>,
             <<"!"," ","m","a">>}
      [] f = "email" ->
            {None, <<"A","@","x",".","c","o">>, <<"a","@","x">>}
      [] f = "phone" ->
            {None, <<"+","1"," ","4","1","5","-","5","5","5","-","0","1","0","0">>,
             <<"1","2","3">>, <<"n","/","a">>}
      [] f = "company" ->
            {None, <<"A"," ","T","e","c","h">>,
             <<"T","e","c","h"," ","S","t","a","r","t","u","p">>,
             <<"S","t","a","r","t","u","p"," ","T","e","c","h">>,
             <<"S","t","a","r","t","u","p","s">>,
             <<"S","o","f","t","w","a","r","e">>,
             <<"t","e","c","h"," ","c","o">>}
      [] f = "job_title" ->
            {None, <<"O","p","s"," ","P","a","r","i","s">>,
             <<"G","e","o"," ","&"," ","N","e","t">>}
      [] f = "address" ->
            {NoneDict, PyDict(<<>>),
             PyDict([street |-> <<"1"," ","#"," ","B">>, city |-> None])}
      [] f = "linkedin_url" ->
            {None, <<"x",".","c","o","/","a">>, <<"f","t","p",":","/","/","x">>}
      [] f = "website_url" ->
            {None, <<"h","t","t","p","s",":","/","/","x">>, <<" ">>}
      [] f = "industry" ->
            {None, <<"R","e","t","a","i","l">>, <<"$">>}
      [] f = "company_size" ->
            {None, <<"1","-","1","0">>}
      [] f = "source" ->
            {None, <<"w","e","b">>, <<>>}

\* the dicts with exactly the keys S
RECURSIVE DictsOver(_)
DictsOver(S) ==
    IF S = {} THEN {<<>>}
    ELSE LET f == CHOOSE x \in S : TRUE
         IN  {set_item(d, f, v) : d \in DictsOver(S \ {f}), v \in FieldValues(f)}

RawLeads ==
    UNION {DictsOver(S) : S \in {T \in SUBSET RawFields : Cardinality(T) <= MaxFields}}

Env == [id |-> nextId, now |-> clock]

InitLead ==
    /\ nlp \in BOOLEAN /\ EnvStart
    /\ pc = "call" /\ exc = NoExc
    /\ raw_lead \in RawLeads /\ lead = <<>> /\ relead = <<>>
    /\ StrIdle /\ ListIdle /\ BatchIdle

\* clean_lead(raw_lead)
CleanLead ==
    /\ pc = "call"
    /\ IF clean_lead_raises(raw_lead)
       THEN /\ exc' = "AttributeError"
            /\ pc' = "raised"
            /\ lead' = lead
       ELSE /\ lead' = clean_lead(raw_lead, Env, nlp)
            /\ pc' = "returned"
            /\ exc' = exc
    /\ nextId' = nextId + 1
    /\ clock' = clock + 1
    /\ UNCHANGED <<nlp, raw_lead, relead, strVars, listVars, batchVars>>

\* clean_lead(lead): the cleaner applied to a record it returned
ReCleanLead ==
    /\ pc = "returned"
    /\ IF clean_lead_raises(lead)
       THEN /\ exc' = "AttributeError"
            /\ pc' = "raised"
            /\ relead' = relead
       ELSE /\ relead' = clean_lead(lead, Env, nlp)
            /\ pc' = "recleaned"
            /\ exc' = exc
    /\ nextId' = nextId + 1
    /\ clock' = clock + 1
    /\ UNCHANGED <<nlp, raw_lead, lead, strVars, listVars, batchVars>>

NextLead == CleanLead \/ ReCleanLead

SpecLead == InitLead /\ [][NextLead]_vars

\* C2: clean_lead raises on no raw lead: whatever fields are present, and
\* whether their values are strings or None, it returns a record.
C2_CleanLeadTotal ==
    pc # "call" => exc = NoExc /\ pc # "raised"

\* the fields of a cleaned record other than id and last_updated
StableKeys(ld) == DOMAIN ld \ {"id", "last_updated"}

\* C5: cleaning a cleaned record gives the same record on every field other
\* than id and last_updated.
C5_CleanIdempotent ==
    pc = "recleaned" =>
        /\ StableKeys(relead) = StableKeys(lead)
        /\ \A k \in StableKeys(lead) : relead[k] = lead[k]

ItSoftware == <<"I","T"," ","&"," ","S","o","f","t","w","a","r","e">>
Size51 == <<"5","1","-","2","0","0"," ","e","m","p","l","o","y","e","e","s">>
Innovation == <<"I","n","n","o","v","a","t","i","o","n"," ","&"," ",
                "T","e","c","h","n","o","l","o","g","y">>
Size11 == <<"1","1","-","5","0"," ","e","m","p","l","o","y","e","e","s">>

HasTechMarker(name) ==
    /\ Truthy(name)
    /\ \/ Contains(name, <<"T","e","c","h">>)
       \/ Contains(name, <<"S","o","f","t","w","a","r","e">>)
HasStartupMarker(name) ==
    Truthy(name) /\ Contains(name, <<"S","t","a","r","t","u","p">>)

\* the record clean_lead would return if it skipped the enrichment step
Unenriched ==
    with_entities(
        with_names(skeleton(raw_lead,
                            [id |-> lead["id"], now |-> lead["last_updated"]])),
        nlp)

\* C8: a tech/software marker in the cleaned company name decides industry
\* and company_size even when the startup marker is there too; otherwise the
\* startup marker decides them; otherwise both keep the values cleaned from
\* the raw input.  No other field is changed by the enrichment.
C8_EnrichFirstMatchWins ==
    pc \in {"returned", "recleaned"} =>
        LET name == lead["company"]
        IN  /\ name = _clean_str(get(raw_lead, "company"))
            /\ HasTechMarker(name) =>
                  /\ lead["industry"] = ItSoftware
                  /\ lead["company_size"] = Size51
            /\ ~HasTechMarker(name) /\ HasStartupMarker(name) =>
                  /\ lead["industry"] = Innovation
                  /\ lead["company_size"] = Size11
            /\ ~HasTechMarker(name) /\ ~HasStartupMarker(name) =>
                  /\ lead["industry"] = _clean_str(get(raw_lead, "industry"))
                  /\ lead["company_size"] =
                         _clean_str(get(raw_lead, "company_size"))
            /\ DOMAIN lead = DOMAIN Unenriched
            /\ \A k \in DOMAIN lead \ {"industry", "company_size"} :
                  lead[k] = Unenriched[k]

\* a name with both markers, cleaned with a raw industry given: the tech rule
\* has won and overwritten the raw industry
C8_Witness ==
    /\ pc = "returned"
    /\ HasTechMarker(lead["company"])
    /\ HasStartupMarker(lead["company"])
    /\ Truthy(get(raw_lead, "industry"))
    /\ lead["industry"] = ItSoftware

\* C9: source is the raw source when one is given and "Unknown" when the raw
\* source is absent or None.
C9_SourceDefault ==
    pc = "returned" =>
        lead["source"] =
            IF "source" \in DOMAIN raw_lead /\ raw_lead["source"] # None
            THEN raw_lead["source"]
            ELSE <<"U","n","k","n","o","w","n">>

-----------------------------------------------------------------------------
(* clean_dataset applied to one list of raw leads *)

\* clean_dataset is given at most this many raw leads
MaxDataset == 2

\* raw leads with at most one of these fields
DatasetLeads ==
    UNION {DictsOver(S) :
             S \in {{}, {"full_name"}, {"email"}, {"job_title"}, {"address"}}}

InitDataset ==
    /\ nlp \in BOOLEAN /\ EnvStart
    /\ pc = "call" /\ exc = NoExc
    /\ leads \in SeqsUpTo(DatasetLeads, MaxDataset)
    /\ key_fields = <<>> /\ seen = {} /\ deduped = <<>> /\ dataset = <<>>
    /\ StrIdle /\ LeadIdle /\ BatchIdle

\* clean_dataset(leads)
CleanDataset ==
    /\ pc = "call"
    /\ LET r == clean_dataset(leads, Env, nlp)
       IN  /\ IF r.raised
              THEN /\ exc' = "AttributeError"
                   /\ pc' = "raised"
                   /\ dataset' = dataset
              ELSE /\ dataset' = r.value
                   /\ pc' = "returned"
                   /\ exc' = exc
           /\ nextId' = r.env.id
           /\ clock' = r.env.now
    /\ UNCHANGED <<nlp, leads, key_fields, seen, deduped, strVars, leadVars,
                   batchVars>>

NextDataset == CleanDataset

SpecDataset == InitDataset /\ [][NextDataset]_vars

\* C7: clean_dataset returns a list as long as its input whose i-th element
\* is the cleaned form of the i-th input.
C7_DatasetSameLength ==
    pc # "call" =>
        /\ pc = "returned"
        /\ Len(dataset) = Len(leads)
        /\ \A i \in DOMAIN dataset :
              /\ ~clean_lead_raises(leads[i])
              /\ dataset[i] =
                    clean_lead(leads[i],
                               [id  |-> dataset[i]["id"],
                                now |-> dataset[i]["last_updated"]],
                               nlp)

-----------------------------------------------------------------------------
(* deduplicate applied to one list of records *)

\* deduplicate is given at most this many records
MaxLeads == 3

\* short stand-ins for e-mail addresses and company names: two that differ
\* in case only, one that ends in the separator, one that starts with it
EmailValues == {None, <<"a">>, <<"A">>, <<"a","_">>}
CompanyValues == {None, <<"b">>, <<"_","b">>}

\* lists of records; the id of a record is its place in the list
DedupInputs ==
    UNION {{[i \in 1..k |-> [id |-> i, email |-> es[i], company |-> cs[i]]] :
               es \in [1..k -> EmailValues], cs \in [1..k -> CompanyValues]} :
           k \in 0..MaxLeads}

\* the default, a two-field key, and a field no record has
KeyFieldChoices == {default_key_fields, <<"email", "company">>, <<"region">>}

InitDedup ==
    /\ nlp = FALSE /\ EnvStart
    /\ pc = "call" /\ exc = NoExc
    /\ leads \in DedupInputs
    /\ key_fields \in KeyFieldChoices
    /\ seen = {} /\ deduped = <<>> /\ dataset = <<>>
    /\ StrIdle /\ LeadIdle /\ BatchIdle

\* deduplicate(leads, key_fields)
Deduplicate ==
    /\ pc = "call"
    /\ LET r == deduplicate(leads, key_fields, seen)
       IN  /\ deduped' = r.deduped
           /\ seen' = r.seen
    /\ pc' = "returned"
    /\ UNCHANGED <<envVars, exc, leads, key_fields, dataset, strVars, leadVars,
                   batchVars>>

NextDedup == Deduplicate

SpecDedup == InitDedup /\ [][NextDedup]_vars

\* the places of the input whose record is in the result
KeptPlaces == {deduped[m]["id"] : m \in DOMAIN deduped}

\* the result is the input restricted to some of its places, in input order
OrderPreservingSubsequence ==
    /\ \A m \in DOMAIN deduped :
          /\ deduped[m]["id"] \in DOMAIN leads
          /\ deduped[m] = leads[deduped[m]["id"]]
    /\ \A m \in 1..(Len(deduped) - 1) : deduped[m]["id"] < deduped[m + 1]["id"]

\* a requested field that is missing, None or the empty string
EmptyField(ld, f) == f \notin DOMAIN ld \/ ld[f] = None \/ ld[f] = <<>>

\* the composite key of a record is empty: every requested field is
EmptyKeyed(ld, kf) == \A i \in DOMAIN kf : EmptyField(ld, kf[i])

\* C1: deduplicate keeps every record whose composite key is empty (each
\* requested field missing, None or empty): none of them is dropped, so N
\* such records give N records.
C1_EmptyKeysRetained ==
    pc = "returned" =>
        \A i \in DOMAIN leads :
            EmptyKeyed(leads[i], key_fields) => i \in KeptPlaces

\* the composite key before any case folding: the string forms of the
\* requested fields joined by underscores
CompositeKey(ld, kf) ==
    join_underscore([i \in DOMAIN kf |-> str(get_or(ld, kf[i], <<>>))])

\* two records carry the same key, compared case-insensitively
SameKey(a, b, kf) == lower(CompositeKey(a, kf)) = lower(CompositeKey(b, kf))

\* C4: deduplicate returns an order-preserving subsequence of its input in
\* which, of the records carrying one non-empty composite key (compared
\* case-insensitively), exactly the first is kept.
C4_FirstOfEachKeyKept ==
    pc = "returned" =>
        /\ OrderPreservingSubsequence
        /\ \A i \in DOMAIN leads :
              CompositeKey(leads[i], key_fields) # <<>> =>
                  (i \in KeptPlaces <=>
                      \A j \in 1..(i - 1) :
                          ~SameKey(leads[j], leads[i], key_fields))

\* the example of the specification: three e-mails of which the second is
\* the first in another case give the first and the third record
C4_Witness ==
    /\ pc = "returned"
    /\ key_fields = <<"email">>
    /\ Len(leads) = 3
    /\ leads[1]["email"] = <<"a">>
    /\ leads[2]["email"] = <<"A">>
    /\ leads[3]["email"] = <<"a","_">>
    /\ deduped = <<leads[1], leads[3]>>

-----------------------------------------------------------------------------
(* process_all_json over a directory of documents *)

\* an array document holds at most this many raw leads
MaxBatch == 2

FileA == <<"a",".","j","s","o","n">>
FileB == <<"b",".","j","s","o","n">>
FileNotes == <<"n",".","t","x","t">>
Filenames == {FileA, FileB, FileNotes}

\* filename.endswith('.json')
endswith_json(name) ==
    /\ Len(name) >= 5
    /\ SubSeq(name, Len(name) - 4, Len(name)) = <<".","j","s","o","n">>

JsonFiles == {f \in Filenames : endswith_json(f)}

\* the raw leads of the documents: two whose e-mails differ in case only and
\* one with a null address
BatchLeads ==
    {[email |-> <<"a","@","x",".","c","o">>],
     [email |-> <<"A","@","x",".","c","o">>],
     [address |-> NoneDict]}

\* a document is text json.load rejects, one object, or an array of objects
CorruptDoc == [kind |-> "corrupt", leads |-> <<>>]
Documents ==
    {CorruptDoc}
    \cup {[kind |-> "object", leads |-> <<r>>] : r \in BatchLeads}
    \cup {[kind |-> "array", leads |-> ls] : ls \in SeqsUpTo(BatchLeads, MaxBatch)}

Init ==
    /\ nlp \in BOOLEAN /\ EnvStart
    /\ pc = "idle" /\ exc = NoExc
    /\ raw_dir \in {d \in [Filenames -> Documents] : d[FileNotes] = CorruptDoc}
    /\ todo = {} /\ clean_dir = <<>> /\ skipped = {} /\ cleaned = <<>>
    /\ StrIdle /\ LeadIdle /\ ListIdle

\* process_all_json is called: os.listdir(self.raw_dir)
ProcessAllJson ==
    /\ pc = "idle"
    /\ todo' = DOMAIN raw_dir
    /\ pc' = "loop"
    /\ UNCHANGED <<envVars, exc, raw_dir, clean_dir, skipped, cleaned,
                   strVars, leadVars, listVars>>

\* an iteration on a name that does not end in .json
SkipOther(f) ==
    /\ pc = "loop"
    /\ ~endswith_json(f)
    /\ todo' = todo \ {f}
    /\ UNCHANGED <<envVars, pc, exc, raw_dir, clean_dir, skipped, cleaned,
                   strVars, leadVars, listVars>>

\* an iteration in which json.load raises: "Failed to load", continue
LoadFailed(f) ==
    /\ pc = "loop"
    /\ endswith_json(f)
    /\ raw_dir[f].kind = "corrupt"
    /\ skipped' = skipped \cup {f}
    /\ todo' = todo \ {f}
    /\ UNCHANGED <<envVars, pc, exc, raw_dir, clean_dir, cleaned,
                   strVars, leadVars, listVars>>

\* an iteration on a document that parses: clean_dataset, deduplicate,
\* json.dump; an exception out of clean_dataset ends process_all_json
ProcessFile(f) ==
    /\ pc = "loop"
    /\ endswith_json(f)
    /\ raw_dir[f].kind # "corrupt"
    /\ LET r == clean_dataset(raw_dir[f].leads, Env, nlp)
           d == deduplicate(r.value, default_key_fields, seen)
       IN  /\ leads' = raw_dir[f].leads
           /\ nextId' = r.env.id
           /\ clock' = r.env.now
           /\ IF r.raised
              THEN /\ exc' = "AttributeError"
                   /\ pc' = "crashed"
                   /\ UNCHANGED <<todo, clean_dir, cleaned, key_fields, seen,
                                  deduped, dataset>>
              ELSE /\ dataset' = r.value
                   /\ key_fields' = default_key_fields
                   /\ deduped' = d.deduped
                   /\ seen' = d.seen
                   /\ cleaned' = set_item(cleaned, f, r.value)
                   /\ clean_dir' = set_item(clean_dir, f, d.deduped)
                   /\ todo' = todo \ {f}
                   /\ UNCHANGED <<pc, exc>>
    /\ UNCHANGED <<nlp, raw_dir, skipped, strVars, leadVars>>

\* the loop has run out of names
Return ==
    /\ pc = "loop"
    /\ todo = {}
    /\ pc' = "done"
    /\ UNCHANGED <<envVars, exc, strVars, leadVars, listVars, batchVars>>

Next ==
    \/ ProcessAllJson
    \/ \E f \in todo : SkipOther(f)
    \/ \E f \in todo : LoadFailed(f)
    \/ \E f \in todo : ProcessFile(f)
    \/ Return

Spec == Init /\ [][Next]_vars

\* C3: process_all_json visits every document and does not halt early: a
\* document that fails to parse is skipped with a diagnostic and gets no
\* output, and every other document gets an output under its own filename,
\* whatever the documents before it held.
C3_BatchVisitsEveryDocument ==
    /\ pc # "crashed"
    /\ pc = "done" =>
          \A f \in JsonFiles :
              IF raw_dir[f].kind = "corrupt"
              THEN f \in skipped /\ f \notin DOMAIN clean_dir
              ELSE f \in DOMAIN clean_dir

\* the records of ls at the places in K, in the order of ls
RECURSIVE AtPlaces(_, _, _)
AtPlaces(ls, K, i) ==
    IF i > Len(ls) THEN <<>>
    ELSE (IF i \in K THEN <<ls[i]>> ELSE <<>>) \o AtPlaces(ls, K, i + 1)

\* what deduplication of ls alone gives: the first record of every non-empty
\* key, unmodified and in order
DedupedAlone(ls, kf) ==
    AtPlaces(ls,
             {i \in DOMAIN ls :
                 /\ dedup_key(ls[i], kf) # <<>>
                 /\ \A j \in 1..(i - 1) :
                       dedup_key(ls[j], kf) # dedup_key(ls[i], kf)},
             1)

\* C10: the set of seen keys belongs to one deduplicate call: the list
\* written for a file is determined by the cleaned list of that file alone,
\* so a key met in a file processed earlier does not remove a record, and
\* the records kept are the cleaned records themselves.
C10_SeenScopedToOneCall ==
    \A f \in DOMAIN clean_dir :
        clean_dir[f] = DedupedAlone(cleaned[f], default_key_fields)

\* both documents were processed and their outputs hold a record of the
\* same key
C10_Witness ==
    /\ pc = "done"
    /\ DOMAIN clean_dir = {FileA, FileB}
    /\ \E m \in DOMAIN clean_dir[FileA] : \E n \in DOMAIN clean_dir[FileB] :
          /\ dedup_key(clean_dir[FileA][m], default_key_fields) # <<>>
          /\ dedup_key(clean_dir[FileA][m], default_key_fields) =
                 dedup_key(clean_dir[FileB][n], default_key_fields)

-----------------------------------------------------------------------------
(* deduplicate with a key of several fields *)

\* two records agree on field f, compared case-insensitively on the string
\* form (a missing field counts as the empty string)
AgreeOnField(a, b, f) ==
    lower(str(get_or(a, f, <<>>))) = lower(str(get_or(b, f, <<>>)))

\* C11: with two or more key_fields, deduplicate drops a record only if an
\* earlier record that was kept agrees with it on every key field; records
\* that differ in a key field are never taken for duplicates, also when the
\* values hold the underscore that separates the parts of the key.
C11_DropOnlyOnFieldwiseAgreement ==
    (pc = "returned" /\ Len(key_fields) >= 2) =>
        \A i \in DOMAIN leads :
            i \notin KeptPlaces =>
                \E j \in 1..(i - 1) :
                    /\ j \in KeptPlaces
                    /\ \A n \in DOMAIN key_fields :
                          AgreeOnField(leads[j], leads[i], key_fields[n])

=============================================================================
